---------------------------- MODULE Spec2Model ----------------------------
(***************************************************************************)
(* A model of the render pipeline core of nbq/hifi:                        *)
(*   - model::MaterialKey / model::MaterialFilter (Material.h): bit-vector *)
(*     trait keys, the mask/value match predicate and the filter order;    *)
(*   - render::ItemMaterialBucketMap (DrawTask.h): the std::map from       *)
(*     MaterialFilter to item-id lists, ordered by MaterialFilter::Less;   *)
(*   - render::Job, Job::Varying and the Task that runs the Jobs           *)
(*     (DrawTask.h).                                                       *)
(*                                                                         *)
(* A std::bitset<NUM_FLAGS> is modelled as the set of the positions of its *)
(* set bits; to_ulong() converts such a set to the unsigned integer the    *)
(* code compares.                                                          *)
(***************************************************************************)
EXTENDS Integers, Sequences, FiniteSets, TLC

VARIABLES
    call,       \* the MaterialFilter or MaterialKey operation applied last, its
                \* inputs and results
    matKey,     \* a MaterialKey object, changed in place by its setters
    buckets,    \* ItemMaterialBucketMap: the map's entries in iteration order
    inserted,   \* the item ids handed to ItemMaterialBucketMap::insert so far
    last,       \* the last operation on the bucket map, with the map as it was before
    stdOnly,    \* every insert so far met a map of the standard buckets alone, with
                \* a key that one standard filter passes
    stdAllocated, \* allocateStandardMaterialBuckets has been called on the map
    cells,      \* the Job::Varying::Model<T> payload objects, by address (0: no object)
    jobs,       \* Task::_jobs, in insertion order
    pc,         \* "assemble": the Task is being built; "idle": between frames;
                \* "running": inside Task::run; "crashed": the process has died
    next,       \* inside Task::run: the index of the Job to run next
    frame,      \* the number of frames started
    ctx,        \* the scene and render context of the current frame
    trace,      \* what the Jobs of the current frame did, in the order they ran,
                \* with the slots as they were at the stage boundary after each
    prev,       \* the context and the trace of the frame before the current one,
                \* kept for the Tasks all of whose reads are defined
    builder,    \* a MaterialFilter::Builder object: its _value and _mask
    calls,      \* the with<Trait>/without<Trait> calls made on the Builder so far
    body,       \* ObjectMotionState::_body: NULL, or a rigid body and its isActive()
    sentMoving, \* ObjectMotionState::_sentMoving
    numNonMovingUpdates, \* ObjectMotionState::_numNonMovingUpdates
    sentFrame   \* ObjectMotionState::_sentFrame, a uint32_t in two 16-bit halves

bucketVars == <<buckets, inserted, last, stdOnly, stdAllocated>>

taskVars == <<cells, jobs, pc, next, frame, ctx, trace, prev>>

builderVars == <<builder, calls>>

motionVars == <<body, sentMoving, numNonMovingUpdates, sentFrame>>

vars == <<call, matKey, bucketVars, taskVars, builderVars, motionVars>>

-----------------------------------------------------------------------------
(* MaterialKey::FlagBit, MaterialKey::MapChannel *)

EMISSIVE_VAL_BIT == 0
ALBEDO_VAL_BIT == 1
METALLIC_VAL_BIT == 2
GLOSS_VAL_BIT == 3
TRANSPARENT_VAL_BIT == 4
EMISSIVE_MAP_BIT == 5
ALBEDO_MAP_BIT == 6
METALLIC_MAP_BIT == 7
GLOSS_MAP_BIT == 8
TRANSPARENT_MAP_BIT == 9
NORMAL_MAP_BIT == 10
LIGHTMAP_MAP_BIT == 11
NUM_FLAGS == 12

EMISSIVE_MAP == 0
ALBEDO_MAP == 1
METALLIC_MAP == 2
GLOSS_MAP == 3
TRANSPARENT_MAP == 4
NORMAL_MAP == 5
LIGHTMAP_MAP == 6
NUM_MAP_CHANNELS == 7

\* the values of MaterialKey::MapChannel that name a channel
MapChannels == 0 .. (NUM_MAP_CHANNELS - 1)

\* std::bitset<NUM_FLAGS>: every bit position of MaterialKey::Flags
FlagBits == 0 .. (NUM_FLAGS - 1)

\* MaterialKey::Flags: the values a std::bitset<NUM_FLAGS> can hold
Flags == SUBSET FlagBits

\* std::bitset::to_ulong(): the unsigned integer whose binary digits are the bits
RECURSIVE to_ulong(_)
to_ulong(flags) ==
    IF flags = {} THEN 0
    ELSE LET b == CHOOSE x \in flags : TRUE
         IN  2 ^ b + to_ulong(flags \ {b})

\* std::bitset operator&
BitAnd(a, b) == a \cap b

\* MaterialKey(const Flags& flags)
MaterialKey(flags) == [flags |-> flags]

\* MaterialFilter(const Flags& value, const Flags& mask)
MaterialFilter(value, mask) == [value |-> value, mask |-> mask]

\* MaterialKey(): _flags(0)
DefaultKey == MaterialKey({})

\* std::bitset::set(pos, value), for pos < NUM_FLAGS
bitsetSet(flags, pos, value) == IF value THEN flags \cup {pos} ELSE flags \ {pos}

\* std::bitset::operator[](pos) const, for pos < NUM_FLAGS
bitsetAt(flags, pos) == pos \in flags

\* MaterialKey::setEmissive ... setLightmapMap: _flags.set(<BIT>, value)
setEmissive(k, value) == MaterialKey(bitsetSet(k.flags, EMISSIVE_VAL_BIT, value))
setEmissiveMap(k, value) == MaterialKey(bitsetSet(k.flags, EMISSIVE_MAP_BIT, value))
setAlbedo(k, value) == MaterialKey(bitsetSet(k.flags, ALBEDO_VAL_BIT, value))
setAlbedoMap(k, value) == MaterialKey(bitsetSet(k.flags, ALBEDO_MAP_BIT, value))
setMetallic(k, value) == MaterialKey(bitsetSet(k.flags, METALLIC_VAL_BIT, value))
setMetallicMap(k, value) == MaterialKey(bitsetSet(k.flags, METALLIC_MAP_BIT, value))
setGloss(k, value) == MaterialKey(bitsetSet(k.flags, GLOSS_VAL_BIT, value))
setGlossMap(k, value) == MaterialKey(bitsetSet(k.flags, GLOSS_MAP_BIT, value))
setTransparent(k, value) == MaterialKey(bitsetSet(k.flags, TRANSPARENT_VAL_BIT, value))
setTransparentMap(k, value) == MaterialKey(bitsetSet(k.flags, TRANSPARENT_MAP_BIT, value))
setNormalMap(k, value) == MaterialKey(bitsetSet(k.flags, NORMAL_MAP_BIT, value))
setLightmapMap(k, value) == MaterialKey(bitsetSet(k.flags, LIGHTMAP_MAP_BIT, value))

\* MaterialKey::isEmissive ... isLightmapMap: _flags[<BIT>]
isEmissive(k) == bitsetAt(k.flags, EMISSIVE_VAL_BIT)
isEmissiveMap(k) == bitsetAt(k.flags, EMISSIVE_MAP_BIT)
isAlbedo(k) == bitsetAt(k.flags, ALBEDO_VAL_BIT)
isAlbedoMap(k) == bitsetAt(k.flags, ALBEDO_MAP_BIT)
isMetallic(k) == bitsetAt(k.flags, METALLIC_VAL_BIT)
isMetallicMap(k) == bitsetAt(k.flags, METALLIC_MAP_BIT)
isGloss(k) == bitsetAt(k.flags, GLOSS_VAL_BIT)
isGlossMap(k) == bitsetAt(k.flags, GLOSS_MAP_BIT)
isTransparent(k) == bitsetAt(k.flags, TRANSPARENT_VAL_BIT)
isOpaque(k) == ~bitsetAt(k.flags, TRANSPARENT_VAL_BIT)
isTransparentMap(k) == bitsetAt(k.flags, TRANSPARENT_MAP_BIT)
isNormalMap(k) == bitsetAt(k.flags, NORMAL_MAP_BIT)
isLightmapMap(k) == bitsetAt(k.flags, LIGHTMAP_MAP_BIT)

\* A slip in setMapChannel: the value is ignored, the bit is always set.
setMapChannelAlwaysSets(k, channel, value) ==
    MaterialKey(bitsetSet(k.flags, EMISSIVE_MAP_BIT + channel, TRUE))

\* A slip in setMapChannel: the channel is counted from the first flag bit, not
\* from the first map bit.
setMapChannelFromFirstBit(k, channel, value) ==
    MaterialKey(bitsetSet(k.flags, EMISSIVE_VAL_BIT + channel, value))

\* MaterialKey::setMapChannel: _flags.set(EMISSIVE_MAP_BIT + channel, value)
setMapChannel(k, channel, value) ==
    MaterialKey(bitsetSet(k.flags, EMISSIVE_MAP_BIT + channel, value))

\* MaterialKey::isMapChannel: _flags[EMISSIVE_MAP_BIT + channel]
isMapChannel(k, channel) == bitsetAt(k.flags, EMISSIVE_MAP_BIT + channel)

\* MaterialKey::Builder::withAlbedo() etc.: _flags.set(bit)
KeyBuilderWith(flags, bit) == flags \cup {bit}

\* MaterialKey::Builder::opaqueAlbedo(): Builder().withAlbedo().build()
KeyOpaqueAlbedo == MaterialKey(KeyBuilderWith({}, ALBEDO_VAL_BIT))

\* MaterialFilter::Builder::with<Trait>(): _value.set(bit); _mask.set(bit)
FilterBuilderWith(b, bit) ==
    [value |-> b.value \cup {bit}, mask |-> b.mask \cup {bit}]

\* a without<Trait>() that forgets _value.reset(bit)
FilterBuilderWithoutKeepsValue(b, bit) ==
    [value |-> b.value, mask |-> b.mask \cup {bit}]

\* MaterialFilter::Builder::without<Trait>(): _value.reset(bit); _mask.set(bit)
FilterBuilderWithout(b, bit) ==
    [value |-> b.value \ {bit}, mask |-> b.mask \cup {bit}]

\* MaterialFilter::Builder(): _value{0}, _mask{0}
FilterBuilder == [value |-> {}, mask |-> {}]

\* MaterialFilter::Builder::build()
FilterBuild(b) == MaterialFilter(b.value, b.mask)

\* A slip in opaqueAlbedo: withoutTransparent() is left out.
opaqueAlbedoAnyTransparency ==
    FilterBuild(FilterBuilderWith(FilterBuilder, ALBEDO_VAL_BIT))

\* MaterialFilter::Builder::opaqueAlbedo()
opaqueAlbedo ==
    FilterBuild(FilterBuilderWithout(FilterBuilderWith(FilterBuilder, ALBEDO_VAL_BIT),
                                     TRANSPARENT_VAL_BIT))

\* A slip in test: the masked key is compared with the mask, not with the value.
testMaskOnly(filter, key) ==
    BitAnd(key.flags, filter.mask) = filter.mask

\* A slip in test: the value is compared without being masked.
testUnmaskedValue(filter, key) ==
    BitAnd(key.flags, filter.mask) = filter.value

\* MaterialFilter::test
test(filter, key) ==
    BitAnd(key.flags, filter.mask) = BitAnd(filter.value, filter.mask)

\* A slip in Less: the mask is compared first, the value on a tie.
LessMaskFirst(left, right) ==
    IF to_ulong(left.mask) = to_ulong(right.mask)
    THEN to_ulong(left.value) < to_ulong(right.value)
    ELSE to_ulong(left.mask) < to_ulong(right.mask)

\* A slip in Less: <= on the tie, which makes equal filters precede each other.
LessOrEqualOnTie(left, right) ==
    IF to_ulong(left.value) = to_ulong(right.value)
    THEN to_ulong(left.mask) <= to_ulong(right.mask)
    ELSE to_ulong(left.value) < to_ulong(right.value)

\* MaterialFilter::Less::operator()
Less(left, right) ==
    IF to_ulong(left.value) = to_ulong(right.value)
    THEN to_ulong(left.mask) < to_ulong(right.mask)
    ELSE to_ulong(left.value) < to_ulong(right.value)

-----------------------------------------------------------------------------
(* Bounds of the inputs *)

\* The flag bits the inputs range over, in the order they are taken
ProbeBits ==
    << ALBEDO_VAL_BIT, TRANSPARENT_VAL_BIT, EMISSIVE_VAL_BIT, NORMAL_MAP_BIT,
       LIGHTMAP_MAP_BIT, EMISSIVE_MAP_BIT, METALLIC_VAL_BIT, GLOSS_VAL_BIT,
       ALBEDO_MAP_BIT, METALLIC_MAP_BIT, GLOSS_MAP_BIT, TRANSPARENT_MAP_BIT >>

\* test and Less are applied to flags over the first NumProbeBits probe bits
NumProbeBits == 3

\* the triples of filters Less is applied to range over the first NumOrderBits
NumOrderBits == 2

FirstBits(n) ==
    { ProbeBits[i] : i \in 1 .. (IF n < Len(ProbeBits) THEN n ELSE Len(ProbeBits)) }

FlagInputs == SUBSET FirstBits(NumProbeBits)
KeyInputs == { MaterialKey(f) : f \in FlagInputs }
FilterInputs == { MaterialFilter(v, m) : v \in FlagInputs, m \in FlagInputs }
OrderFilterInputs ==
    { MaterialFilter(v, m) : v \in SUBSET FirstBits(NumOrderBits),
                             m \in SUBSET FirstBits(NumOrderBits) }

-----------------------------------------------------------------------------
(* The pure operations of MaterialFilter, applied to drawn inputs *)

Idle == [op |-> "idle"]

\* the MaterialKey object is default-constructed
NoKey == matKey = DefaultKey

\* the MaterialFilter::Builder object is default-constructed, no call made on it
NoBuilder == builder = FilterBuilder /\ calls = <<>>

\* ObjectMotionState::_body before the object is given a rigid body
NULL == "NULL"

\* the ObjectMotionState just constructed
NoMotionState ==
    /\ body = NULL
    /\ sentMoving = FALSE
    /\ numNonMovingUpdates = 0
    /\ sentFrame = <<0, 0>>

\* bool r = filter.test(key)
TestOp ==
    /\ call.op = "idle"
    /\ \E f \in FilterInputs, k \in KeyInputs :
          call' = [op |-> "test", filter |-> f, key |-> k, result |-> test(f, k)]
    /\ UNCHANGED <<matKey, bucketVars, taskVars, builderVars, motionVars>>

\* bool r = MaterialFilter::Less()(left, right)
LessOp ==
    /\ call.op = "idle"
    /\ \E a \in FilterInputs, b \in FilterInputs :
          call' = [op |-> "less", left |-> a, right |-> b, result |-> Less(a, b)]
    /\ UNCHANGED <<matKey, bucketVars, taskVars, builderVars, motionVars>>

\* Less applied to each pair of three filters, as an ordered container does
OrderOp ==
    /\ call.op = "idle"
    /\ \E a \in OrderFilterInputs, b \in OrderFilterInputs, c \in OrderFilterInputs :
          call' = [op |-> "order", a |-> a, b |-> b, c |-> c,
                   ab |-> Less(a, b), ba |-> Less(b, a),
                   bc |-> Less(b, c), ac |-> Less(a, c), aa |-> Less(a, a)]
    /\ UNCHANGED <<matKey, bucketVars, taskVars, builderVars, motionVars>>

\* the caller takes the result; the next operation can be applied
Return ==
    /\ call.op # "idle"
    /\ call' = Idle
    /\ UNCHANGED <<matKey, bucketVars, taskVars, builderVars, motionVars>>

NoBucketMap ==
    /\ buckets = << >>
    /\ inserted = {}
    /\ last = [op |-> "none"]
    /\ stdOnly = TRUE
    /\ stdAllocated = FALSE

NoContext == [items |-> << >>, visible |-> {}]

\* no frame to compare with
NoPrev == [ctx |-> NoContext, trace |-> << >>]

NoTask ==
    /\ cells = << >>
    /\ jobs = << >>
    /\ pc = "assemble"
    /\ next = 0
    /\ frame = 0
    /\ ctx = NoContext
    /\ trace = << >>
    /\ prev = NoPrev

InitFilter ==
    /\ call = Idle
    /\ NoKey
    /\ NoBuilder
    /\ NoMotionState
    /\ NoBucketMap
    /\ NoTask

NextFilter == TestOp \/ LessOp \/ OrderOp \/ Return

SpecFilter == InitFilter /\ [][NextFilter]_vars

-----------------------------------------------------------------------------
(* A MaterialKey object under its setters, and the canonical filter applied
   to it *)

\* the named setters of MaterialKey
Setters ==
    { "setEmissive", "setEmissiveMap", "setAlbedo", "setAlbedoMap", "setMetallic",
      "setMetallicMap", "setGloss", "setGlossMap", "setTransparent",
      "setTransparentMap", "setNormalMap", "setLightmapMap" }

\* the call key.<setter>(value)
CallSetter(setter, k, value) ==
    CASE setter = "setEmissive" -> setEmissive(k, value)
      [] setter = "setEmissiveMap" -> setEmissiveMap(k, value)
      [] setter = "setAlbedo" -> setAlbedo(k, value)
      [] setter = "setAlbedoMap" -> setAlbedoMap(k, value)
      [] setter = "setMetallic" -> setMetallic(k, value)
      [] setter = "setMetallicMap" -> setMetallicMap(k, value)
      [] setter = "setGloss" -> setGloss(k, value)
      [] setter = "setGlossMap" -> setGlossMap(k, value)
      [] setter = "setTransparent" -> setTransparent(k, value)
      [] setter = "setTransparentMap" -> setTransparentMap(k, value)
      [] setter = "setNormalMap" -> setNormalMap(k, value)
      [] setter = "setLightmapMap" -> setLightmapMap(k, value)

\* key.setMapChannel(channel, value)
SetMapChannelOp ==
    /\ call.op = "idle"
    /\ \E channel \in MapChannels, value \in BOOLEAN :
          /\ matKey' = setMapChannel(matKey, channel, value)
          /\ call' = [op |-> "setMapChannel", channel |-> channel, value |-> value,
                      pre |-> matKey]
    /\ UNCHANGED <<bucketVars, taskVars, builderVars, motionVars>>

\* key.set<Trait>(value)
SetterOp ==
    /\ call.op = "idle"
    /\ \E setter \in Setters, value \in BOOLEAN :
          /\ matKey' = CallSetter(setter, matKey, value)
          /\ call' = [op |-> "set", setter |-> setter, value |-> value, pre |-> matKey]
    /\ UNCHANGED <<bucketVars, taskVars, builderVars, motionVars>>

\* key = MaterialKey::Builder::opaqueAlbedo()
KeyOpaqueAlbedoOp ==
    /\ call.op = "idle"
    /\ matKey' = KeyOpaqueAlbedo
    /\ call' = [op |-> "opaqueAlbedo", pre |-> matKey]
    /\ UNCHANGED <<bucketVars, taskVars, builderVars, motionVars>>

\* bool r = MaterialFilter::Builder::opaqueAlbedo().test(key)
TestOpaqueAlbedoOp ==
    /\ call.op = "idle"
    /\ call' = [op |-> "testOpaqueAlbedo", result |-> test(opaqueAlbedo, matKey)]
    /\ UNCHANGED <<matKey, bucketVars, taskVars, builderVars, motionVars>>

InitKey ==
    /\ call = Idle
    /\ NoKey
    /\ NoBuilder
    /\ NoMotionState
    /\ NoBucketMap
    /\ NoTask

NextKey ==
    SetMapChannelOp \/ SetterOp \/ KeyOpaqueAlbedoOp \/ TestOpaqueAlbedoOp \/ Return

SpecKey == InitKey /\ [][NextKey]_vars

-----------------------------------------------------------------------------
(* A MaterialFilter::Builder under a sequence of with<Trait>() and
   without<Trait>() calls, each on one of the twelve traits, and build(). *)

\* the number of with/without calls made on one Builder
MaxCalls == 3

\* builder.with<Trait>(), for the trait of one flag bit
WithOp ==
    /\ call.op = "idle"
    /\ Len(calls) < MaxCalls
    /\ \E bit \in FlagBits :
          /\ builder' = FilterBuilderWith(builder, bit)
          /\ calls' = Append(calls, [with |-> TRUE, bit |-> bit])
    /\ UNCHANGED <<call, matKey, bucketVars, taskVars, motionVars>>

\* builder.without<Trait>(), for the trait of one flag bit
WithoutOp ==
    /\ call.op = "idle"
    /\ Len(calls) < MaxCalls
    /\ \E bit \in FlagBits :
          /\ builder' = FilterBuilderWithout(builder, bit)
          /\ calls' = Append(calls, [with |-> FALSE, bit |-> bit])
    /\ UNCHANGED <<call, matKey, bucketVars, taskVars, motionVars>>

\* MaterialFilter f = builder.build()
BuildOp ==
    /\ call.op = "idle"
    /\ call' = [op |-> "build", result |-> FilterBuild(builder)]
    /\ UNCHANGED <<matKey, bucketVars, taskVars, builderVars, motionVars>>

InitBuilder ==
    /\ call = Idle
    /\ NoKey
    /\ NoBuilder
    /\ NoMotionState
    /\ NoBucketMap
    /\ NoTask

NextBuilder == WithOp \/ WithoutOp \/ BuildOp \/ Return

SpecBuilder == InitBuilder /\ [][NextBuilder]_vars

-----------------------------------------------------------------------------
(* physics ObjectMotionState: when to send an update of the object's motion.
   A uint32_t frame number is the pair <<hi, lo>> of its 16-bit halves, a time
   is a number of half substeps; the kinematic state (_sentPosition,
   _sentRotation, the velocities) is left out, and the outcome of the
   extrapolation error test that depends on it is any boolean. *)

HALF_WORD == 2 ^ 16

MAX_NUM_NON_MOVING_UPDATES == 5

\* FIXED_SUBSTEP is 1 / 60 of a second
SUBSTEPS_PER_SECOND == 60

MAX_UPDATE_PERIOD_FOR_ACTIVE_THINGS == 10

NON_MOVING_UPDATE_PERIOD == 1

\* the largest _numNonMovingUpdates the writers of the counter leave
MaxNonMovingUpdates == 7

\* the frame numbers handed to shouldSendUpdate: 0, 60, 61, 701 and 2^32 - 1
SimulationFrames ==
    { <<0, 0>>, <<0, 60>>, <<0, 61>>, <<0, 701>>, <<HALF_WORD - 1, HALF_WORD - 1>> }

\* the subStepRemainder handed to shouldSendUpdate, in half substeps
SubStepRemainders == {0, 1}

\* a - b in uint32_t arithmetic
uint32Minus(a, b) ==
    LET borrow == IF a[2] < b[2] THEN 1 ELSE 0 IN
    << (a[1] - b[1] - borrow) % HALF_WORD, (a[2] - b[2]) % HALF_WORD >>

\* (float)(simulationFrame - _sentFrame) * FIXED_SUBSTEP + subStepRemainder, in
\* half substeps; from 2^16 frames on, longer than every period it is compared
\* with, it is held at 2^16 frames. The rounding of the float product is left
\* out: at the frame differences of SimulationFrames each comparison of dt
\* with a period comes out as in exact arithmetic.
elapsed(simulationFrame, frame0, subStepRemainder) ==
    LET n == uint32Minus(simulationFrame, frame0) IN
    IF n[1] > 0 THEN 2 * HALF_WORD ELSE 2 * n[2] + subStepRemainder

\* a time in seconds, in half substeps
seconds(t) == t * 2 * SUBSTEPS_PER_SECOND

\* the ObjectMotionState object as the two methods read it
MotionState ==
    [body |-> body, sentMoving |-> sentMoving,
     numNonMovingUpdates |-> numNonMovingUpdates, sentFrame |-> sentFrame]

\* a doesNotNeedToSendUpdate that gives up at the limit
doesNotNeedToSendUpdateAtLimit(s) ==
    s.body # "active" /\ s.numNonMovingUpdates >= MAX_NUM_NON_MOVING_UPDATES

\* ObjectMotionState::doesNotNeedToSendUpdate()
doesNotNeedToSendUpdate(s) ==
    s.body # "active" /\ s.numNonMovingUpdates > MAX_NUM_NON_MOVING_UPDATES

\* a shouldSendUpdate that waits for the non-moving period after the body
\* went inactive
shouldSendUpdateWaitsWhenStopped(s, simulationFrame, subStepRemainder, significant) ==
    LET dt == elapsed(simulationFrame, s.sentFrame, subStepRemainder)
        isActive == s.body = "active"
        return(result, branch) ==
            [result |-> result, branch |-> branch,
             sentFrame |-> simulationFrame, dt |-> dt]
    IN  IF isActive
        THEN IF dt > seconds(MAX_UPDATE_PERIOD_FOR_ACTIVE_THINGS)
             THEN return(TRUE, "active")
             ELSE return(significant, "error")
        ELSE IF s.sentMoving /\ dt > seconds(NON_MOVING_UPDATE_PERIOD)
        THEN return(TRUE, "wentInactive")
        ELSE IF /\ dt > seconds(NON_MOVING_UPDATE_PERIOD)
                /\ s.numNonMovingUpdates < MAX_NUM_NON_MOVING_UPDATES
             THEN return(TRUE, "nonMoving")
             ELSE return(significant, "error")

(* ObjectMotionState::shouldSendUpdate(simulationFrame, subStepRemainder): the
   value returned, the return statement taken ("active": the period of active
   things has passed; "wentInactive": the body just went inactive; "nonMoving":
   the periodic resend of a non-moving object; "error": the extrapolation
   error test, whose outcome is `significant'), the new _sentFrame and dt *)
shouldSendUpdate(s, simulationFrame, subStepRemainder, significant) ==
    LET dt == elapsed(simulationFrame, s.sentFrame, subStepRemainder)
        isActive == s.body = "active"
        return(result, branch) ==
            [result |-> result, branch |-> branch,
             sentFrame |-> simulationFrame, dt |-> dt]
    IN  IF isActive
        THEN IF dt > seconds(MAX_UPDATE_PERIOD_FOR_ACTIVE_THINGS)
             THEN return(TRUE, "active")
             ELSE return(significant, "error")
        ELSE IF s.sentMoving
        THEN IF ~isActive
             THEN return(TRUE, "wentInactive")
             ELSE return(significant, "error")
        ELSE IF /\ dt > seconds(NON_MOVING_UPDATE_PERIOD)
                /\ s.numNonMovingUpdates < MAX_NUM_NON_MOVING_UPDATES
             THEN return(TRUE, "nonMoving")
             ELSE return(significant, "error")

\* the physics engine gives the object a rigid body, activates it or lets it
\* fall asleep
BodyActivation ==
    /\ call.op = "idle"
    /\ \E b \in {"active", "inactive"} : b # body /\ body' = b
    /\ UNCHANGED <<call, matKey, bucketVars, taskVars, builderVars,
                   sentMoving, numNonMovingUpdates, sentFrame>>

\* the subclass that sends the update writes the protected members
\* _sentMoving and _numNonMovingUpdates
UpdateSent ==
    /\ call.op = "idle"
    /\ body # NULL
    /\ \E moving \in BOOLEAN, n \in 0 .. MaxNonMovingUpdates :
          /\ <<moving, n>> # <<sentMoving, numNonMovingUpdates>>
          /\ sentMoving' = moving
          /\ numNonMovingUpdates' = n
    /\ UNCHANGED <<call, matKey, bucketVars, taskVars, builderVars, body, sentFrame>>

\* bool send = motionState->shouldSendUpdate(simulationFrame, subStepRemainder);
\* assert(_body) is the method's precondition
ShouldSendUpdateOp ==
    /\ call.op = "idle"
    /\ body # NULL
    /\ \E simulationFrame \in SimulationFrames,
          subStepRemainder \in SubStepRemainders, significant \in BOOLEAN :
          LET r == shouldSendUpdate(MotionState, simulationFrame,
                                    subStepRemainder, significant)
          IN  /\ sentFrame' = r.sentFrame
              /\ call' = [op |-> "shouldSendUpdate", pre |-> MotionState,
                          simulationFrame |-> simulationFrame,
                          subStepRemainder |-> subStepRemainder, dt |-> r.dt,
                          branch |-> r.branch, result |-> r.result]
    /\ UNCHANGED <<matKey, bucketVars, taskVars, builderVars,
                   body, sentMoving, numNonMovingUpdates>>

\* bool idle = motionState->doesNotNeedToSendUpdate(); it reads through _body
DoesNotNeedToSendUpdateOp ==
    /\ call.op = "idle"
    /\ body # NULL
    /\ call' = [op |-> "doesNotNeedToSendUpdate", pre |-> MotionState,
                result |-> doesNotNeedToSendUpdate(MotionState)]
    /\ UNCHANGED <<matKey, bucketVars, taskVars, builderVars, motionVars>>

InitMotion ==
    /\ call = Idle
    /\ NoKey
    /\ NoBuilder
    /\ NoMotionState
    /\ NoBucketMap
    /\ NoTask

NextMotion ==
    \/ BodyActivation
    \/ UpdateSent
    \/ ShouldSendUpdateOp
    \/ DoesNotNeedToSendUpdateOp
    \/ Return

SpecMotion == InitMotion /\ [][NextMotion]_vars

-----------------------------------------------------------------------------
(* render::ItemMaterialBucketMap: a std::map<MaterialFilter, ItemIDs, Less>.
   The map is the sequence of its entries [filter, items] in iteration order. *)

\* the filters and keys handed to the bucket map range over these traits
BucketBits == {ALBEDO_VAL_BIT, TRANSPARENT_VAL_BIT}
BucketFilterInputs ==
    { opaqueAlbedo,
      MaterialFilter({}, {}),
      MaterialFilter({ALBEDO_VAL_BIT}, {}),
      FilterBuild(FilterBuilderWith(FilterBuilder, ALBEDO_VAL_BIT)),
      FilterBuild(FilterBuilderWith(FilterBuilder, TRANSPARENT_VAL_BIT)),
      FilterBuild(FilterBuilderWithout(FilterBuilder, TRANSPARENT_VAL_BIT)) }
BucketKeyInputs == { MaterialKey(f) : f \in SUBSET BucketBits }

\* at most MaxBuckets buckets are allocated, at most MaxItems items inserted
MaxBuckets == 3
MaxItems == 2
ItemIDs == 1 .. MaxItems

\* the filters of the map, in iteration order
Filters(m) == [i \in 1 .. Len(m) |-> m[i].filter]

\* std::map::lower_bound: the first entry whose key is not Less than f
MapLowerBound(m, f) ==
    IF \E i \in 1 .. Len(m) : ~Less(m[i].filter, f)
    THEN CHOOSE i \in 1 .. Len(m) :
            /\ ~Less(m[i].filter, f)
            /\ \A j \in 1 .. (i - 1) : Less(m[j].filter, f)
    ELSE Len(m) + 1

\* A slip: a new bucket is put at the end, as in a vector of buckets.
MapSubscriptAppends(m, f) ==
    IF \E i \in 1 .. Len(m) : m[i].filter = f
    THEN m
    ELSE Append(m, [filter |-> f, items |-> << >>])

\* std::map::operator[]: the entry of an equivalent key is kept, otherwise an
\* entry with an empty item list is put at the key's place in the order
MapSubscript(m, f) ==
    LET i == MapLowerBound(m, f)
    IN  IF i <= Len(m) /\ ~Less(f, m[i].filter)
        THEN m
        ELSE SubSeq(m, 1, i - 1) \o << [filter |-> f, items |-> << >>] >>
                \o SubSeq(m, i, Len(m))

\* the canonical filter set of allocateStandardMaterialBuckets
StandardMaterialFilters == << opaqueAlbedo >>

\* ItemMaterialBucketMap::allocateStandardMaterialBuckets
RECURSIVE allocateStandardMaterialBuckets(_, _)
allocateStandardMaterialBuckets(m, n) ==
    IF n > Len(StandardMaterialFilters) THEN m
    ELSE allocateStandardMaterialBuckets(MapSubscript(m, StandardMaterialFilters[n]), n + 1)

\* ItemMaterialBucketMap::insert: the buckets are scanned in the map's order
\* and id is appended to the first one whose filter passes the key
insert(m, id, key) ==
    IF \E i \in 1 .. Len(m) : test(m[i].filter, key)
    THEN LET first == CHOOSE i \in 1 .. Len(m) :
                         /\ test(m[i].filter, key)
                         /\ \A j \in 1 .. (i - 1) : ~test(m[j].filter, key)
         IN  [m EXCEPT ![first].items = Append(@, id)]
    ELSE m

\* a key matches a filter: on every bit of the mask the key's bit is the value's
MatchesOnMask(f, k) ==
    \A b \in FlagBits : b \in f.mask => ((b \in k.flags) <=> (b \in f.value))

\* the map holds the standard buckets and no other, and exactly one standard
\* filter matches the key
MeetsStandardBuckets(m, key) ==
    /\ { m[i].filter : i \in 1 .. Len(m) }
          = { StandardMaterialFilters[n] : n \in 1 .. Len(StandardMaterialFilters) }
    /\ Cardinality({ n \in 1 .. Len(StandardMaterialFilters) :
                        MatchesOnMask(StandardMaterialFilters[n], key) }) = 1

\* ItemMaterialBucketMap()
InitBucket ==
    /\ call = Idle
    /\ NoKey
    /\ NoBuilder
    /\ NoMotionState
    /\ buckets = << >>
    /\ inserted = {}
    /\ last = [op |-> "none"]
    /\ stdOnly = TRUE
    /\ stdAllocated = FALSE
    /\ NoTask

\* bucketMap.allocateStandardMaterialBuckets()
AllocateStandard ==
    /\ Len(allocateStandardMaterialBuckets(buckets, 1)) <= MaxBuckets
    /\ buckets' = allocateStandardMaterialBuckets(buckets, 1)
    /\ last' = [op |-> "allocateStandard", pre |-> buckets]
    /\ stdAllocated' = TRUE
    /\ UNCHANGED <<call, matKey, inserted, stdOnly, taskVars, builderVars, motionVars>>

\* bucketMap[filter]: an application-specific bucket
AllocateBucket ==
    /\ \E f \in BucketFilterInputs :
          /\ Len(MapSubscript(buckets, f)) <= MaxBuckets
          /\ buckets' = MapSubscript(buckets, f)
          /\ last' = [op |-> "allocate", filter |-> f, pre |-> buckets]
    /\ UNCHANGED <<call, matKey, inserted, stdOnly, stdAllocated, taskVars, builderVars, motionVars>>

\* bucketMap.insert(id, key), id an item not inserted before
Insert ==
    /\ \E id \in ItemIDs \ inserted, key \in BucketKeyInputs :
          /\ buckets' = insert(buckets, id, key)
          /\ inserted' = inserted \cup {id}
          /\ last' = [op |-> "insert", id |-> id, key |-> key, pre |-> buckets]
          /\ stdOnly' = (stdOnly /\ MeetsStandardBuckets(buckets, key))
    /\ UNCHANGED <<call, matKey, stdAllocated, taskVars, builderVars, motionVars>>

NextBucket == AllocateStandard \/ AllocateBucket \/ Insert

SpecBucket == InitBucket /\ [][NextBucket]_vars

-----------------------------------------------------------------------------
(* render::Job, Job::Varying and the Task that runs the Jobs. A Varying is the
   address of the payload object its _concept points to, 0 when _concept is
   null; copies of a Varying share the payload object. *)

\* a Task holds at most MaxJobs Jobs and runs at most MaxFrames frames
MaxJobs == 3
MaxFrames == 2

\* the scene and render contexts a frame is run against
Contexts ==
    { [items |-> <<2, 1>>, visible |-> {1, 2}],
      [items |-> <<1, 2>>, visible |-> {2}] }

\* what a read through a null _concept, or through a payload of another type,
\* can find in memory
GarbageInputs == { << >>, <<1, 1>> }

\* the types I a ModelI<T, I> is instantiated with
InputTypes == { "ItemIDsBounds", "ItemMaterialBucketMap" }

\* the Output value handed to ModelIO(Data data, Output output)
OutputInputs == { <<1>> }

\* Varying(): _concept is null
EmptyVarying == 0

\* A slip in the constructor: no payload is allocated, _concept stays null.
NewVaryingUnbound(cs, type, data) == [cells |-> cs, var |-> 0]

\* Varying(const T& data): _concept(new Model<T>(data))
NewVarying(cs, type, data) ==
    [cells |-> Append(cs, [type |-> type, data |-> data]), var |-> Len(cs) + 1]

\* A slip in the copy constructor: the payload is duplicated, not shared.
VaryingCopyDuplicates(cs, var) ==
    IF var = EmptyVarying
    THEN [cells |-> cs, var |-> var]
    ELSE [cells |-> Append(cs, cs[var]), var |-> Len(cs) + 1]

\* Varying(const Varying& var): _concept(var._concept)
VaryingCopy(cs, var) == [cells |-> cs, var |-> var]

\* Varying's implicit copy assignment, as in ModelIO::setInput: _input = input
VaryingAssign(cs, var) == [cells |-> cs, var |-> var]

\* Varying::get<T>(): the _data of the payload object
get(cs, var) == cs[var].data

\* Varying::get<T>() as the code computes it: static_cast<Model<T>*> of _concept
\* without a check, so the reference yields the payload's _data when the payload
\* is a Model<T>, and anything when _concept is null or a Model of another type
getAs(cs, var, T) ==
    IF var # EmptyVarying /\ cs[var].type = T THEN { get(cs, var) } ELSE GarbageInputs

\* A slip in edit<T>(): the reference is to storage all payloads share, so the
\* assignment lands in every slot.
editSharedStorage(cs, var, data) == [k \in DOMAIN cs |-> [cs[k] EXCEPT !.data = data]]

\* Varying::edit<T>(), assigned through: the _data of the payload object is set
edit(cs, var, data) == [cs EXCEPT ![var].data = data]

\* the stage values (Data) of the Job models
DrawLight == [kind |-> "DrawLight"]
RenderItems == [kind |-> "RenderItems"]
FetchItems == [kind |-> "FetchItems"]
CullItems == [kind |-> "CullItems"]
DepthSortItems == [kind |-> "DepthSortItems", frontToBack |-> TRUE]

\* Output(): a default-constructed ItemIDsBounds
DefaultOutput == << >>

\* Job(Concept* concept) with the fields of the concept; inType is the template
\* argument I of the model, inputFrom names the Job whose getOutput() the input
\* was copied from (0: none)
NewJob(concept, data, inType, input, output, inputFrom) ==
    [concept |-> concept, data |-> data, inType |-> inType, input |-> input,
     output |-> output, inputFrom |-> inputFrom]

\* A slip in ModelI and ModelIO: getInput is not overridden, the Concept's
\* default answers.
ConceptGetInputNotOverridden(job) == 0

\* Concept::getInput and its overrides in ModelI and ModelIO
ConceptGetInput(job) ==
    IF job.concept \in {"ModelI", "ModelIO"} THEN job.input ELSE EmptyVarying

\* Concept::getOutput and its overrides in ModelO and ModelIO
ConceptGetOutput(job) ==
    IF job.concept \in {"ModelO", "ModelIO"} THEN job.output ELSE EmptyVarying

\* Job::getOutput: a copy of the Varying the concept returns
JobGetOutput(cs, job) == VaryingCopy(cs, ConceptGetOutput(job))

\* Job::getInput: a copy of the Varying the concept returns
JobGetInput(cs, job) == VaryingCopy(cs, ConceptGetInput(job))

\* A slip in FetchItems::run: outItems is not cleared, the items of the frame
\* are appended to what the frame before left in the slot.
FetchItemsRunAppends(data, c, out) == out \o c.items

\* FetchItems::run(sceneContext, renderContext, outItems): outItems, a reference
\* to the payload of the output slot, is cleared and filled with the items of
\* the scene
FetchItemsRun(data, c, out) == c.items

\* CullItems::run(sceneContext, renderContext, inItems, outItems): outItems is
\* cleared and filled with the visible items of inItems
CullItemsRun(data, c, in, out) == SelectSeq(in, LAMBDA id : id \in c.visible)

\* DepthSortItems::run(sceneContext, renderContext, inItems, outItems): outItems
\* is cleared and filled with inItems in depth order
DepthSortItemsRun(data, c, in, out) ==
    SortSeq(in, LAMBDA a, b : IF data.frontToBack THEN a < b ELSE a > b)

\* what a run of a Job did: the stage-execution path taken, the value read
\* through get<I>() and the value written through edit<O>()
Ran(path, reads, read, writes, wrote) ==
    [path |-> path, reads |-> reads, read |-> read, writes |-> writes, wrote |-> wrote]

NotRun == Ran("none", FALSE, << >>, FALSE, << >>)

\* jobRun: jobModel.run(sceneContext, renderContext)
jobRun(data, c) == Ran("run", FALSE, << >>, FALSE, << >>)

\* jobRunI: jobModel.run(sceneContext, renderContext, input)
jobRunI(data, c, in) == Ran("runI", TRUE, in, FALSE, << >>)

\* jobRunO: jobModel.run(sceneContext, renderContext, output)
jobRunO(data, c, out) == Ran("runO", FALSE, << >>, TRUE, FetchItemsRun(data, c, out))

\* jobRunIO: jobModel.run(sceneContext, renderContext, input, output)
jobRunIO(data, c, in, out) ==
    Ran("runIO", TRUE, in, TRUE,
        IF data.kind = "DepthSortItems"
        THEN DepthSortItemsRun(data, c, in, out)
        ELSE CullItemsRun(data, c, in, out))

\* Model<T>::run
ModelRun(job, c, in, out) == jobRun(job.data, c)

\* ModelI<T, I>::run
ModelIRun(job, c, in, out) == jobRunI(job.data, c, in)

\* ModelO<T, O>::run
ModelORun(job, c, in, out) == jobRunO(job.data, c, out)

\* A slip in ModelIO::run: it dispatches to jobRunI and leaves the output alone.
ModelIORunsAsInputOnly(job, c, in, out) == jobRunI(job.data, c, in)

\* ModelIO<T, I, O>::run
ModelIORun(job, c, in, out) == jobRunIO(job.data, c, in, out)

\* the virtual call _concept->run(sceneContext, renderContext)
ConceptRun(job, c, in, out) ==
    CASE job.concept = "Model" -> ModelRun(job, c, in, out)
      [] job.concept = "ModelI" -> ModelIRun(job, c, in, out)
      [] job.concept = "ModelO" -> ModelORun(job, c, in, out)
      [] job.concept = "ModelIO" -> ModelIORun(job, c, in, out)

\* A slip in Job::run: the guard is inverted, a Job with a concept does nothing.
JobRunGuardInverted(job, c, in, out) == NotRun

\* Job::run: if (_concept) { _concept->run(sceneContext, renderContext); }
JobRun(job, c, in, out) ==
    IF job.concept # "null" THEN ConceptRun(job, c, in, out) ELSE NotRun

\* the Job reads its input through _input.get<I>()
ReadsInput(job) == job.concept \in {"ModelI", "ModelIO"}

\* the values _input.get<I>() can yield: the payload's _data, or, through a
\* null _concept, whatever lies at the address computed from null
InputValues(cs, job) ==
    IF ~ReadsInput(job) THEN { << >> } ELSE getAs(cs, job.input, job.inType)

\* _input.get<I>() is a read through a pointer that is no Model<I>: _concept is
\* null, or the payload has another type
BadCast(cs, job) ==
    /\ ReadsInput(job)
    /\ IF job.input = EmptyVarying THEN TRUE ELSE cs[job.input].type # job.inType

\* what _output.edit<O>() refers to when the Job is run: the payload of its
\* output slot, as the run before left it
OutputValue(cs, job) ==
    IF job.concept \in {"ModelO", "ModelIO"} THEN get(cs, job.output) ELSE << >>

\* the Task is wired so that every read of an input is a read of a payload of
\* the declared type
WellWired == \A j \in 1 .. Len(jobs) : ~BadCast(cells, jobs[j])

\* DrawSceneTask(): no Job yet
InitTask ==
    /\ call = Idle
    /\ NoKey
    /\ NoBuilder
    /\ NoMotionState
    /\ NoBucketMap
    /\ NoTask

\* the Varying handed to a ModelI or ModelIO constructor: the output of the
\* last Job, _jobs.back().getOutput(), or Varying() when there is none to take
BackOutput ==
    IF jobs # << >> /\ jobs[Len(jobs)].concept # "null"
    THEN JobGetOutput(cells, jobs[Len(jobs)])
    ELSE [cells |-> cells, var |-> EmptyVarying]

\* the Job the Varying of BackOutput comes from, 0 when it is empty
BackJob ==
    IF jobs # << >> /\ jobs[Len(jobs)].concept \in {"ModelO", "ModelIO"}
    THEN Len(jobs) ELSE 0

Assembling == pc = "assemble" /\ Len(jobs) < MaxJobs

\* _jobs.push_back(Job(nullptr))
AddNullJob ==
    /\ Assembling
    /\ jobs' = Append(jobs, NewJob("null", DrawLight, "none", EmptyVarying, EmptyVarying, 0))
    /\ UNCHANGED <<cells, pc, next, frame, ctx, trace, prev, call, matKey, bucketVars, builderVars, motionVars>>

\* _jobs.push_back(Job(new Job::Model<T>()))
AddModel ==
    /\ Assembling
    /\ jobs' = Append(jobs, NewJob("Model", DrawLight, "none", EmptyVarying, EmptyVarying, 0))
    /\ UNCHANGED <<cells, pc, next, frame, ctx, trace, prev, call, matKey, bucketVars, builderVars, motionVars>>

\* _jobs.push_back(Job(new Job::ModelI<T, I>(input))): _input(input)
AddModelI ==
    /\ Assembling
    /\ \E I \in InputTypes :
          LET in == VaryingCopy(BackOutput.cells, BackOutput.var)
          IN  /\ cells' = in.cells
              /\ jobs' = Append(jobs, NewJob("ModelI", RenderItems, I, in.var, EmptyVarying, BackJob))
    /\ UNCHANGED <<pc, next, frame, ctx, trace, prev, call, matKey, bucketVars, builderVars, motionVars>>

\* _jobs.push_back(Job(new Job::ModelI<T, I>(data))): _input is left empty
AddModelIData ==
    /\ Assembling
    /\ jobs' = Append(jobs, NewJob("ModelI", RenderItems, "ItemIDsBounds", EmptyVarying, EmptyVarying, 0))
    /\ UNCHANGED <<cells, pc, next, frame, ctx, trace, prev, call, matKey, bucketVars, builderVars, motionVars>>

\* _jobs.push_back(Job(new Job::ModelO<T, O>())): _output(Output())
AddModelO ==
    /\ Assembling
    /\ LET out == NewVarying(cells, "ItemIDsBounds", DefaultOutput)
       IN  /\ cells' = out.cells
           /\ jobs' = Append(jobs, NewJob("ModelO", FetchItems, "none", EmptyVarying, out.var, 0))
    /\ UNCHANGED <<pc, next, frame, ctx, trace, prev, call, matKey, bucketVars, builderVars, motionVars>>

\* _jobs.push_back(Job(new Job::ModelIO<T, I, O>(input))): _input(input), _output(Output())
AddModelIO ==
    /\ Assembling
    /\ \E data \in {CullItems, DepthSortItems} :
          LET in == VaryingCopy(BackOutput.cells, BackOutput.var)
              out == NewVarying(in.cells, "ItemIDsBounds", DefaultOutput)
          IN  /\ cells' = out.cells
              /\ jobs' = Append(jobs, NewJob("ModelIO", data, "ItemIDsBounds", in.var, out.var, BackJob))
    /\ UNCHANGED <<pc, next, frame, ctx, trace, prev, call, matKey, bucketVars, builderVars, motionVars>>

\* _jobs.push_back(Job(new Job::ModelIO<T, I, O>(data, output))): _output(output),
\* _input is left empty
AddModelIOData ==
    /\ Assembling
    /\ \E output \in OutputInputs :
          LET out == NewVarying(cells, "ItemIDsBounds", output)
          IN  /\ cells' = out.cells
              /\ jobs' = Append(jobs, NewJob("ModelIO", CullItems, "ItemIDsBounds", EmptyVarying, out.var, 0))
    /\ UNCHANGED <<pc, next, frame, ctx, trace, prev, call, matKey, bucketVars, builderVars, motionVars>>

\* auto model = new Job::ModelIO<T, I, O>(data, output); model->setInput(input);
\* _jobs.push_back(Job(model))
AddModelIOSetInput ==
    /\ Assembling
    /\ \E output \in OutputInputs :
          LET out == NewVarying(BackOutput.cells, "ItemIDsBounds", output)
              in == VaryingAssign(out.cells, BackOutput.var)
          IN  /\ cells' = in.cells
              /\ jobs' = Append(jobs, NewJob("ModelIO", DepthSortItems, "ItemIDsBounds", in.var, out.var, BackJob))
    /\ UNCHANGED <<pc, next, frame, ctx, trace, prev, call, matKey, bucketVars, builderVars, motionVars>>

\* the constructor of the Task returns
FinishAssembly ==
    /\ pc = "assemble"
    /\ pc' = "idle"
    /\ UNCHANGED <<cells, jobs, next, frame, ctx, trace, prev, call, matKey, bucketVars, builderVars, motionVars>>

\* getInput() and getOutput() of the Jobs js[j], js[j + 1], ... that hold a
\* concept, called in this order on the payloads cs
RECURSIVE GetSlots(_, _, _)
GetSlots(cs, js, j) ==
    IF j > Len(js) THEN [cells |-> cs, slots |-> << >>]
    ELSE LET held == js[j].concept # "null"
             in == IF held THEN JobGetInput(cs, js[j])
                   ELSE [cells |-> cs, var |-> EmptyVarying]
             out == IF held THEN JobGetOutput(in.cells, js[j])
                    ELSE [cells |-> cs, var |-> EmptyVarying]
             rest == GetSlots(out.cells, js, j + 1)
         IN  [cells |-> rest.cells,
              slots |-> << [input |-> in.var, output |-> out.var] >> \o rest.slots]

\* between frames the owner of the Task walks _jobs and calls getInput() and
\* getOutput() of every Job that holds a concept
GetSlotsOp ==
    /\ pc = "idle"
    /\ call.op = "idle"
    /\ jobs # << >>
    /\ LET got == GetSlots(cells, jobs, 1)
       IN  /\ cells' = got.cells
           /\ call' = [op |-> "getSlots", slots |-> got.slots]
    /\ UNCHANGED <<jobs, pc, next, frame, ctx, trace, prev, matKey, bucketVars, builderVars, motionVars>>

\* Task::run(sceneContext, renderContext) is called for a frame, once the
\* call before it has returned
StartFrame ==
    /\ pc = "idle"
    /\ call.op = "idle"
    /\ frame < MaxFrames
    /\ \E c \in Contexts : ctx' = c
    /\ pc' = "running"
    /\ next' = 1
    /\ frame' = frame + 1
    /\ trace' = << >>
    /\ prev' = IF WellWired THEN [ctx |-> ctx, trace |-> trace] ELSE NoPrev
    /\ UNCHANGED <<cells, jobs, call, matKey, bucketVars, builderVars, motionVars>>

\* Task::run: the next Job of _jobs is run, to completion
RunJob ==
    /\ pc = "running"
    /\ next <= Len(jobs)
    /\ \E in \in InputValues(cells, jobs[next]) :
          LET r == JobRun(jobs[next], ctx, in, OutputValue(cells, jobs[next]))
              after == IF r.writes THEN edit(cells, jobs[next].output, r.wrote) ELSE cells
          IN  /\ trace' = Append(trace, [job |-> next, ran |-> r, cells |-> after])
              /\ cells' = after
    /\ next' = next + 1
    /\ UNCHANGED <<jobs, pc, frame, ctx, prev, call, matKey, bucketVars, builderVars, motionVars>>

\* the read through a null _concept, or through a payload of another type,
\* faults instead: the process dies
Crash ==
    /\ pc = "running"
    /\ next <= Len(jobs)
    /\ BadCast(cells, jobs[next])
    /\ pc' = "crashed"
    /\ UNCHANGED <<cells, jobs, next, frame, ctx, trace, prev, call, matKey, bucketVars, builderVars, motionVars>>

\* Task::run returns: every Job has been run
EndFrame ==
    /\ pc = "running"
    /\ next > Len(jobs)
    /\ pc' = "idle"
    /\ UNCHANGED <<cells, jobs, next, frame, ctx, trace, prev, call, matKey, bucketVars, builderVars, motionVars>>

NextTask ==
    \/ AddNullJob \/ AddModel \/ AddModelI \/ AddModelIData \/ AddModelO
    \/ AddModelIO \/ AddModelIOData \/ AddModelIOSetInput \/ FinishAssembly
    \/ StartFrame \/ RunJob \/ Crash \/ EndFrame
    \/ GetSlotsOp \/ Return

SpecTask == InitTask /\ [][NextTask]_vars

-----------------------------------------------------------------------------
(* C1: f.test(k) is true exactly when, on every bit of f.mask, the key's bit
   equals the value's bit: (k.flags AND f.mask) = (f.value AND f.mask). Bits
   outside the mask, of the key or of the value, never influence the result,
   and a filter with an empty mask matches every key. *)
C1_TestIsMaskedEquality ==
    call.op = "test" =>
        /\ call.result = MatchesOnMask(call.filter, call.key)
        /\ \A k \in KeyInputs :
              (k.flags \cap call.filter.mask = call.key.flags \cap call.filter.mask)
                  => test(call.filter, k) = call.result
        /\ call.filter.mask = {} => call.result = TRUE

\* a filter whose value has a bit outside its mask matched a key
C1_Witness ==
    /\ call.op = "test"
    /\ call.result = TRUE
    /\ call.filter.mask # {}
    /\ ~(call.filter.value \subseteq call.filter.mask)
    /\ ~(call.key.flags \subseteq call.filter.mask)

-----------------------------------------------------------------------------
(* The unsigned-integer reading of a bit vector, stated on the bits: x is below
   y exactly when the highest bit on which they differ is set in y. *)
UnsignedBelow(x, y) == \E b \in y \ x : \A c \in x \ y : c < b

\* lexicographic on (value, mask), each read as an unsigned integer
LexBefore(a, b) ==
    \/ UnsignedBelow(a.value, b.value)
    \/ a.value = b.value /\ UnsignedBelow(a.mask, b.mask)

(* C8: the MaterialFilter order is lexicographic on (value, mask) read as
   unsigned integers: Less(a, b) holds iff a.value < b.value, or the values are
   equal and a.mask < b.mask. The filter value=0b01, mask=0b01 is ordered
   before value=0b10, mask=0b11. *)
C8_LessIsLexicographic ==
    call.op = "less" =>
        /\ call.result = LexBefore(call.left, call.right)
        /\ (/\ call.left = MaterialFilter({0}, {0})
            /\ call.right = MaterialFilter({1}, {0, 1})) => call.result = TRUE

\* Less was applied to the two filters of the scenario, and put the first before
C8_Witness ==
    /\ call.op = "less"
    /\ call.left = MaterialFilter({0}, {0})
    /\ call.right = MaterialFilter({1}, {0, 1})
    /\ call.result = TRUE

(* C9: MaterialFilter::Less is a strict weak order: irreflexive, asymmetric and
   transitive, and two filters neither of which is Less than the other have the
   same value and the same mask. *)
C9_LessIsStrictWeakOrder ==
    call.op = "order" =>
        /\ ~call.aa
        /\ call.ab => ~call.ba
        /\ (call.ab /\ call.bc) => call.ac
        /\ (~call.ab /\ ~call.ba) =>
              (call.a.value = call.b.value /\ call.a.mask = call.b.mask)

\* three distinct filters in a chain a < b < c, a and b tied on the value
C9_Witness ==
    /\ call.op = "order"
    /\ call.ab /\ call.bc /\ call.ac
    /\ call.a.value = call.b.value
    /\ call.b.value # call.c.value

-----------------------------------------------------------------------------
\* the buckets of m whose filter matches the key
Matching(m, key) == { i \in 1 .. Len(m) : MatchesOnMask(m[i].filter, key) }

(* C2: insert(id, key) scans the buckets in the map's iteration order, which is
   the MaterialFilter order, and appends id to the end of the list of the first
   bucket whose filter matches the key, and to no other bucket, even when
   several bucket filters match. *)
C2_InsertAppendsToFirstMatch ==
    last.op = "insert" =>
        LET pre == last.pre
            matching == Matching(pre, last.key)
        IN  matching # {} =>
              \E r \in matching :
                 /\ \A i \in matching : i >= r
                 /\ \A i \in matching \ {r} : LexBefore(pre[r].filter, pre[i].filter)
                 /\ Len(buckets) = Len(pre)
                 /\ buckets[r] = [filter |-> pre[r].filter,
                                  items |-> Append(pre[r].items, last.id)]
                 /\ \A i \in (1 .. Len(pre)) \ {r} : buckets[i] = pre[i]

\* an insert whose key several buckets match, the first of them holding an item
C2_Witness ==
    /\ last.op = "insert"
    /\ Cardinality(Matching(last.pre, last.key)) >= 2
    /\ \E r \in Matching(last.pre, last.key) :
          /\ \A i \in Matching(last.pre, last.key) : i >= r
          /\ last.pre[r].items # << >>
          /\ buckets[r].items = Append(last.pre[r].items, last.id)

\* the number of items in all the buckets of m
RECURSIVE SumSizes(_)
SumSizes(m) == IF m = << >> THEN 0 ELSE Len(Head(m).items) + SumSizes(Tail(m))

\* the places (bucket, position) at which id is held
Places(m, id) ==
    { <<i, j>> \in (1 .. Len(m)) \X (1 .. MaxItems) :
         j <= Len(m[i].items) /\ m[i].items[j] = id }

(* C3: starting from a map of the pre-allocated standard buckets alone, after
   inserting N items whose keys each match exactly one standard filter, the
   bucket list sizes sum to N and every inserted id is in exactly one bucket,
   at one place, whatever the order of the inserts. *)
C3_StandardBucketsKeepEveryItem ==
    stdOnly =>
        /\ SumSizes(buckets) = Cardinality(inserted)
        /\ \A id \in inserted : Cardinality(Places(buckets, id)) = 1

\* every item has been inserted into the standard buckets
C3_Witness ==
    /\ stdOnly
    /\ last.op = "insert"
    /\ Cardinality(inserted) = MaxItems
    /\ MaxItems >= 2
    /\ Filters(buckets) = StandardMaterialFilters

(* C4: insert(id, key) with a key that no bucket filter matches drops the item:
   no bucket is created, no bucket list changes and the filters of the map are
   unchanged; the call completes like any other insert. *)
C4_UnmatchedInsertDrops ==
    (last.op = "insert" /\ Matching(last.pre, last.key) = {}) =>
        /\ buckets = last.pre
        /\ Filters(buckets) = Filters(last.pre)
        /\ \A i \in 1 .. Len(buckets) : last.id \notin
              { buckets[i].items[j] : j \in 1 .. Len(buckets[i].items) }
        /\ last.id \in inserted

\* an insert into a map with buckets, none of which matches the key
C4_Witness ==
    /\ last.op = "insert"
    /\ Len(last.pre) >= 2
    /\ Matching(last.pre, last.key) = {}
    /\ SumSizes(buckets) < Cardinality(inserted)

\* the map built from nothing by allocating the filters of fs in their order
RECURSIVE BuildMap(_)
BuildMap(fs) ==
    IF fs = << >> THEN << >>
    ELSE MapSubscript(BuildMap(SubSeq(fs, 1, Len(fs) - 1)), fs[Len(fs)])

Reverse(fs) == [i \in 1 .. Len(fs) |-> fs[Len(fs) + 1 - i]]

(* C10: after any sequence of bucket allocations and item inserts, the map
   enumerates its buckets in strictly increasing MaterialFilter order, so no
   two equivalent filters are present; the enumeration order depends on the set
   of filters alone: allocating the same filters in the opposite order gives the
   same enumeration. *)
C10_BucketsEnumerateInFilterOrder ==
    /\ \A i \in 1 .. Len(buckets) : \A j \in (i + 1) .. Len(buckets) :
          /\ LexBefore(buckets[i].filter, buckets[j].filter)
          /\ buckets[i].filter # buckets[j].filter
    /\ Filters(BuildMap(Reverse(Filters(buckets)))) = Filters(buckets)

\* a bucket allocated last, after an insert, is enumerated first of three
C10_Witness ==
    /\ last.op = "allocate"
    /\ Len(buckets) >= 3
    /\ Len(last.pre) < Len(buckets)
    /\ buckets[1].filter = last.filter
    /\ inserted # {}

\* the filters allocateStandardMaterialBuckets pre-inserts
StandardSet ==
    { StandardMaterialFilters[n] : n \in 1 .. Len(StandardMaterialFilters) }

\* the place of filter f in the enumeration of m
Position(m, f) == CHOOSE i \in 1 .. Len(m) : m[i].filter = f

\* the last operation added the bucket of an application-specific filter to a
\* map on which allocateStandardMaterialBuckets had been called
AddedAfterStandard ==
    /\ stdAllocated
    /\ last.op = "allocate"
    /\ last.filter \notin StandardSet
    /\ Len(buckets) > Len(last.pre)

(* C11, as stated: the buckets pre-inserted by allocateStandardMaterialBuckets()
   come before the bucket of every application-specific filter added
   afterwards, whatever its value and mask. *)
C11_StandardBucketsFirst ==
    AddedAfterStandard =>
        \A f \in StandardSet : Position(buckets, f) < Position(buckets, last.filter)

(* C11, amended: a pre-inserted standard bucket comes before the bucket of an
   application-specific filter added afterwards exactly when the standard
   filter is the smaller one in the MaterialFilter order (value, then mask, as
   unsigned integers); a smaller application-specific filter is enumerated
   before the standard buckets. *)
C11_StandardBucketsInFilterOrder ==
    AddedAfterStandard =>
        \A f \in StandardSet :
            (Position(buckets, f) < Position(buckets, last.filter))
                <=> LexBefore(f, last.filter)

\* an application-specific bucket added after the standard ones follows them,
\* and another one, added after them too, precedes them
C11_Witness ==
    /\ AddedAfterStandard
    /\ \A f \in StandardSet : Position(buckets, f) < Position(buckets, last.filter)
    /\ Len(last.pre) >= 2
    /\ last.pre[1].filter \notin StandardSet

\* the canonical filters: opaque albedo requires albedo present, transparency absent
CanonicalFilters ==
    { MaterialFilter({ALBEDO_VAL_BIT}, {ALBEDO_VAL_BIT, TRANSPARENT_VAL_BIT}) }

(* C12: after allocateStandardMaterialBuckets() on an empty bucket map every
   canonical filter, the opaque-albedo filter included, is a key of the map
   with an empty item list, and these buckets remain present through every
   later insert and allocation. *)
C12_StandardBucketsPresent ==
    /\ (last.op = "allocateStandard" /\ last.pre = << >>) =>
          \A f \in CanonicalFilters :
              \E i \in 1 .. Len(buckets) : buckets[i] = [filter |-> f, items |-> << >>]
    /\ stdAllocated =>
          \A f \in CanonicalFilters :
              \E i \in 1 .. Len(buckets) : buckets[i].filter = f

\* the standard bucket, allocated on the empty map, holds an item after inserts
\* of which one was dropped
C12_Witness ==
    /\ stdAllocated
    /\ last.op = "insert"
    /\ Len(buckets) = 1
    /\ buckets[1].filter \in CanonicalFilters
    /\ buckets[1].items # << >>
    /\ Cardinality(inserted) > Len(buckets[1].items)

-----------------------------------------------------------------------------
\* the Jobs run so far in the current frame are the first Jobs of the Task, each
\* run once, in insertion order; a Job that holds a concept ran its stage
RanInOrder ==
    /\ Len(trace) <= Len(jobs)
    /\ \A k \in 1 .. Len(trace) :
          /\ trace[k].job = k
          /\ jobs[k].concept # "null" => trace[k].ran.path # "none"
    /\ pc \in {"running", "crashed"} => Len(trace) = next - 1
    /\ (pc = "idle" /\ frame > 0) => Len(trace) = Len(jobs)

(* C5: Task.run invokes the run of every contained Job exactly once per call, in
   insertion order, each Job completing before the next starts; no Job is
   skipped or reordered in any frame, and the sequence of Jobs is the same in
   every frame after assembly. *)
C5_TaskRunsEveryJobInOrder ==
    /\ []RanInOrder
    /\ [][pc # "assemble" => jobs' = jobs]_vars

\* the second frame of a fetch, cull, render chain has returned
C5_Witness ==
    /\ pc = "idle"
    /\ frame = 2
    /\ Len(jobs) = 3
    /\ [k \in 1 .. 3 |-> jobs[k].concept] = <<"ModelO", "ModelIO", "ModelI">>
    /\ [k \in 1 .. Len(trace) |-> trace[k].ran.path] = <<"runO", "runIO", "runI">>

(* C6: for two adjacent Jobs that reference the same Varying slot (the output of
   stage n is the input of stage n+1), the value stage n wrote through
   edit<O>() is exactly the value stage n+1 reads through get<O>() in the same
   frame; the copy of a Varying aliases the same payload object. *)
C6_ReadAfterWrite ==
    /\ \A k \in 1 .. Len(jobs) :
          jobs[k].inputFrom # 0 =>
              /\ jobs[k].input # EmptyVarying
              /\ jobs[k].input = jobs[jobs[k].inputFrom].output
    /\ \A n \in 1 .. (Len(trace) - 1) :
          (/\ jobs[trace[n + 1].job].inputFrom = trace[n].job
           /\ cells[jobs[trace[n].job].output].type = jobs[trace[n + 1].job].inType
           /\ trace[n].ran.writes
           /\ trace[n + 1].ran.reads)
              => trace[n + 1].ran.read = trace[n].ran.wrote

\* in the second frame a stage read the list the stage before it had just
\* written to the slot they share
C6_Witness ==
    /\ frame = 2
    /\ \E n \in 1 .. (Len(trace) - 1) :
          /\ jobs[trace[n + 1].job].inputFrom = trace[n].job
          /\ trace[n].ran.writes
          /\ trace[n].ran.wrote # DefaultOutput
          /\ trace[n + 1].ran.reads
          /\ trace[n + 1].ran.read = trace[n].ran.wrote
          /\ trace[n + 1].ran.writes
          /\ trace[n + 1].ran.wrote # trace[n + 1].ran.read

\* the stage-execution path of each shape
PathOfShape(concept) ==
    CASE concept = "Model" -> "run"
      [] concept = "ModelI" -> "runI"
      [] concept = "ModelO" -> "runO"
      [] concept = "ModelIO" -> "runIO"

\* every Job run in the current frame took the one path of its shape
RanPathOfShape ==
    \A k \in 1 .. Len(trace) :
        LET job == jobs[trace[k].job]
        IN  job.concept # "null" =>
              /\ trace[k].ran.path = PathOfShape(job.concept)
              /\ trace[k].ran.reads = (job.concept \in {"ModelI", "ModelIO"})
              /\ trace[k].ran.writes = (job.concept \in {"ModelO", "ModelIO"})

(* C7: the shape of a Job (no-I/O, input-only, output-only, input+output) is
   fixed at construction and never changes; every call of Job.run executes
   exactly one stage-execution path, the one matching the shape. *)
C7_RunDispatchesOnShape ==
    /\ []RanPathOfShape
    /\ [][/\ Len(jobs') >= Len(jobs)
          /\ \A k \in 1 .. Len(jobs) : jobs'[k].concept = jobs[k].concept]_vars

\* a frame ran an output-only, an input+output and a no-I/O Job
C7_Witness ==
    /\ pc = "idle"
    /\ frame >= 1
    /\ Len(jobs) = 3
    /\ [k \in 1 .. 3 |-> jobs[k].concept] = <<"ModelO", "ModelIO", "Model">>
    /\ [k \in 1 .. Len(trace) |-> trace[k].ran.path] = <<"runO", "runIO", "run">>


\* the run recorded at place k of the trace read its input through get<I>() while
\* the slot was bound to a payload of another type
MistypedRead(k) ==
    LET job == jobs[trace[k].job]
    IN  /\ ReadsInput(job)
        /\ job.input # EmptyVarying
        /\ cells[job.input].type # job.inType

(* C13, as stated: a get<T>() or edit<T>() on a Varying bound to another type U
   is rejected at the access site as an error: the stage is never handed a
   reference to the payload, so no run of a Job proceeds past a mistyped
   read of its input. *)
C13_MistypedAccessRejected ==
    \A k \in 1 .. Len(trace) : MistypedRead(k) => ~trace[k].ran.reads


\* the slots written up to the stage boundary after the k-th Job: the output
\* slots of the first k Jobs
SlotsWrittenBy(k) ==
    { jobs[j].output : j \in { i \in 1 .. k : jobs[i].concept \in {"ModelO", "ModelIO"} } }

(* C14: running the same fixed Task twice against structurally identical
   contexts with the same stage configuration yields identical ordered content
   in every Varying slot at every stage boundary: in a frame run against the
   context of the frame before, every Job reads and writes what it read and
   wrote in the frame before, and after each Job the slots written so far hold
   what they held at the same boundary of the frame before. Nothing the first
   run left in a slot changes the second. The Task is one whose reads are
   defined (every input bound to a payload of its type). *)
C14_RerunIsDeterministic ==
    (frame >= 2 /\ prev.ctx = ctx /\ WellWired) =>
        \A k \in 1 .. Len(trace) :
            /\ trace[k].ran = prev.trace[k].ran
            /\ \A slot \in SlotsWrittenBy(k) :
                  trace[k].cells[slot].data = prev.trace[k].cells[slot].data

\* a fetch, cull, depth-sort chain has run twice against the same context; the
\* sorted list differs from what the slot held when the Task was assembled
C14_Witness ==
    /\ frame = 2
    /\ pc = "idle"
    /\ prev.ctx = ctx
    /\ WellWired
    /\ Len(jobs) = 3
    /\ [k \in 1 .. 3 |-> jobs[k].data.kind] = <<"FetchItems", "CullItems", "DepthSortItems">>
    /\ trace[3].ran.wrote = <<1, 2>>
    /\ trace[3].ran.read = <<2, 1>>
    /\ prev.trace[3].cells[jobs[3].output].data = <<1, 2>>


-----------------------------------------------------------------------------
\* the flag bits on which two keys differ
ChangedBits(a, b) == (a.flags \ b.flags) \cup (b.flags \ a.flags)

(* C15: for every key k, every channel c within the channel count and every
   boolean v, after k.setMapChannel(c, v) the call k.isMapChannel(c) returns v
   and every other bit of the key is what it was before. *)
C15_SetMapChannelSetsOneBit ==
    call.op = "setMapChannel" =>
        /\ isMapChannel(matKey, call.channel) = call.value
        /\ Cardinality(ChangedBits(matKey, call.pre)) <= 1
        /\ isMapChannel(call.pre, call.channel) = call.value => matKey = call.pre
        /\ \A c \in MapChannels \ {call.channel} :
              isMapChannel(matKey, c) = isMapChannel(call.pre, c)

\* a set channel of a key that has value bits and other map bits is cleared
C15_Witness ==
    /\ call.op = "setMapChannel"
    /\ call.value = FALSE
    /\ isMapChannel(call.pre, call.channel)
    /\ ~isMapChannel(matKey, call.channel)
    /\ \E c \in MapChannels : isMapChannel(matKey, c)
    /\ isAlbedo(matKey)

\* the named setter of each map channel
SetterOfChannel(channel) ==
    CASE channel = EMISSIVE_MAP -> "setEmissiveMap"
      [] channel = ALBEDO_MAP -> "setAlbedoMap"
      [] channel = METALLIC_MAP -> "setMetallicMap"
      [] channel = GLOSS_MAP -> "setGlossMap"
      [] channel = TRANSPARENT_MAP -> "setTransparentMap"
      [] channel = NORMAL_MAP -> "setNormalMap"
      [] channel = LIGHTMAP_MAP -> "setLightmapMap"

\* the named getter of each map channel, applied to k
GetterOfChannel(k, channel) ==
    CASE channel = EMISSIVE_MAP -> isEmissiveMap(k)
      [] channel = ALBEDO_MAP -> isAlbedoMap(k)
      [] channel = METALLIC_MAP -> isMetallicMap(k)
      [] channel = GLOSS_MAP -> isGlossMap(k)
      [] channel = TRANSPARENT_MAP -> isTransparentMap(k)
      [] channel = NORMAL_MAP -> isNormalMap(k)
      [] channel = LIGHTMAP_MAP -> isLightmapMap(k)

(* C16: the mapping from channel to flag bit, baseMapBit + channel, is total
   and injective over the seven map channels and lands inside the map-flag
   range (never a has-value bit, never NUM_FLAGS or beyond); the bit of
   channel c is the one the named accessor of that channel uses:
   setMapChannel(NORMAL_MAP, v) is setNormalMap(v), and so on. *)
C16_ChannelBitMapping ==
    /\ (call.op = "setMapChannel" /\ call.value /\ call.pre = DefaultKey) =>
          /\ Cardinality(matKey.flags) = 1
          /\ \A b \in matKey.flags :
                b >= EMISSIVE_MAP_BIT /\ b <= LIGHTMAP_MAP_BIT /\ b < NUM_FLAGS
          /\ \A d \in MapChannels \ {call.channel} :
                setMapChannel(DefaultKey, d, TRUE) # matKey
    /\ call.op = "setMapChannel" =>
          /\ matKey = CallSetter(SetterOfChannel(call.channel), call.pre, call.value)
          /\ \A c \in MapChannels : isMapChannel(matKey, c) = GetterOfChannel(matKey, c)
    /\ (call.op = "set" /\ \E c \in MapChannels : SetterOfChannel(c) = call.setter) =>
          \A c \in MapChannels :
              SetterOfChannel(c) = call.setter =>
                  /\ matKey = setMapChannel(call.pre, c, call.value)
                  /\ isMapChannel(matKey, c) = call.value

\* setMapChannel(NORMAL_MAP, true) on a key without a normal map
C16_Witness ==
    /\ call.op = "setMapChannel"
    /\ call.channel = NORMAL_MAP
    /\ call.value
    /\ ~isNormalMap(call.pre)
    /\ isNormalMap(matKey)
    /\ isTransparent(matKey)

(* C17: the canonical opaque-albedo filter constrains exactly the albedo and
   the transparency value bits: it matches every key that has albedo set and
   transparent clear, whatever its other bits, rejects every key that has
   transparent set or albedo clear, and matches
   MaterialKey::Builder::opaqueAlbedo(). *)
C17_OpaqueAlbedoFilter ==
    /\ opaqueAlbedo.mask = {ALBEDO_VAL_BIT, TRANSPARENT_VAL_BIT}
    /\ opaqueAlbedo.value \cap opaqueAlbedo.mask = {ALBEDO_VAL_BIT}
    /\ test(opaqueAlbedo, KeyOpaqueAlbedo)
    /\ call.op = "testOpaqueAlbedo" =>
          call.result =
              (ALBEDO_VAL_BIT \in matKey.flags /\ TRANSPARENT_VAL_BIT \notin matKey.flags)

\* the filter has passed a key that has albedo, no transparency, and map bits
C17_Witness ==
    /\ call.op = "testOpaqueAlbedo"
    /\ call.result
    /\ isNormalMap(matKey)
    /\ isEmissive(matKey)
    /\ isOpaque(matKey)


-----------------------------------------------------------------------------
\* the j-th Job has an output slot: it is output-only or input+output
HasOutput(j) == jobs[j].concept \in {"ModelO", "ModelIO"}

\* the j-th Job has never been run
NeverRun(j) ==
    \/ frame = 0
    \/ frame = 1 /\ pc \in {"running", "crashed"} /\ j >= next

\* what a read of the output slot of the j-th Job returns
ReadOutput(j) ==
    IF jobs[j].output = EmptyVarying THEN "empty" ELSE cells[jobs[j].output]

(* C18, as stated: for every output-only and every input+output Job the output
   Varying is bound at construction to a default-constructed value of the
   declared output type; a read of the output slot before the Job has ever run
   returns that default value. *)
C18_OutputBoundToDefault ==
    \A j \in 1 .. Len(jobs) :
        (HasOutput(j) /\ NeverRun(j)) =>
            ReadOutput(j) = [type |-> "ItemIDsBounds", data |-> << >>]

\* a step that adds an output-only or input+output Job binds its output to a
\* new payload: the Output argument for ModelIO(Data data, Output output), a
\* default-constructed value for the other constructors
OutputBoundByConstructor ==
    Len(jobs') = Len(jobs) + 1 =>
        LET job == jobs'[Len(jobs')]
        IN  job.concept \in {"ModelO", "ModelIO"} =>
                /\ job.output = Len(cells) + 1
                /\ Len(cells') = Len(cells) + 1
                /\ cells'[job.output].type = "ItemIDsBounds"
                /\ IF AddModelIOData \/ AddModelIOSetInput
                   THEN cells'[job.output].data \in OutputInputs
                   ELSE cells'[job.output].data = << >>

\* a step after which a Job has still never been run leaves its output slot as
\* it was
OutputKeptUntilRun ==
    \A j \in 1 .. Len(jobs) :
        (HasOutput(j) /\ NeverRun(j)') =>
            cells'[jobs[j].output] = cells[jobs[j].output]

\* the output slot of a Job never run is not empty and holds a value of the
\* declared type
OutputNeverEmpty ==
    \A j \in 1 .. Len(jobs) :
        (HasOutput(j) /\ NeverRun(j)) =>
            /\ jobs[j].output # EmptyVarying
            /\ ReadOutput(j).type = "ItemIDsBounds"
            /\ ReadOutput(j).data \in ({ << >> } \cup OutputInputs)

(* C18, amended: for every output-only and every input+output Job the output
   Varying is bound at construction to a value of the declared output type: a
   default-constructed one, except that the constructor
   ModelIO(Data data, Output output) binds the value of its argument. A read of
   the output slot before the Job has ever run returns the bound value and is
   never a read of an empty slot. *)
C18_OutputBoundAtConstruction ==
    /\ []OutputNeverEmpty
    /\ [][OutputBoundByConstructor /\ OutputKeptUntilRun]_vars

\* in the first frame the first Job has run; a ModelO and a ModelIO built with
\* an output argument have not, and their slots hold what the constructors bound
C18_Witness ==
    /\ frame = 1
    /\ pc = "running"
    /\ next = 2
    /\ Len(jobs) = 3
    /\ jobs[2].concept = "ModelO"
    /\ ReadOutput(2).data = << >>
    /\ jobs[3].concept = "ModelIO"
    /\ ReadOutput(3).data \in OutputInputs


\* the j-th Job was run in the last frame on an input of its declared type
RanOnTypedInput(j) ==
    /\ frame > 0
    /\ jobs[j].input # EmptyVarying
    /\ cells[jobs[j].input].type = jobs[j].inType

(* C19: getInput() returns an empty Varying for no-I/O and output-only Jobs and
   getOutput() returns an empty Varying for no-I/O and input-only Jobs; for the
   shapes that have the slot they return the Job's bound slot, which aliases
   the payload the Job reads or writes: what is read through the returned
   Varying is what the Job read, or wrote, in the last frame. *)
C19_GetInputGetOutput ==
    call.op = "getSlots" =>
        \A j \in 1 .. Len(jobs) :
            LET job == jobs[j]
                got == call.slots[j]
            IN  /\ job.concept \in {"Model", "ModelO"} => got.input = EmptyVarying
                /\ job.concept \in {"Model", "ModelI"} => got.output = EmptyVarying
                /\ job.concept \in {"ModelI", "ModelIO"} =>
                      /\ got.input = job.input
                      /\ RanOnTypedInput(j) =>
                            get(cells, got.input) = trace[j].ran.read
                /\ job.concept \in {"ModelO", "ModelIO"} =>
                      /\ got.output = job.output
                      /\ got.output # EmptyVarying
                      /\ frame > 0 => get(cells, got.output) = trace[j].ran.wrote

\* after a frame of a fetch, cull, render chain, getInput() of the input+output
\* Job gives the slot holding the list it read, which the Job before it wrote,
\* and getOutput() the slot holding the list it wrote
C19_Witness ==
    /\ call.op = "getSlots"
    /\ Len(jobs) = 3
    /\ [j \in 1 .. 3 |-> jobs[j].concept] = <<"ModelO", "ModelIO", "ModelI">>
    /\ RanOnTypedInput(2)
    /\ call.slots[1].input = EmptyVarying
    /\ call.slots[2].input = call.slots[1].output
    /\ call.slots[3].input = call.slots[2].output
    /\ call.slots[3].output = EmptyVarying
    /\ get(cells, call.slots[2].input) = <<1, 2>>
    /\ get(cells, call.slots[2].output) = <<2>>


\* each output slot belongs to one Job, and the only Job that reads it is the
\* Job right after its owner
SingleWriterSingleReader ==
    /\ \A i, j \in 1 .. Len(jobs) :
          (i # j /\ HasOutput(i) /\ HasOutput(j)) => jobs[i].output # jobs[j].output
    /\ \A i, j \in 1 .. Len(jobs) :
          (/\ HasOutput(i)
           /\ ReadsInput(jobs[j])
           /\ jobs[j].input = jobs[i].output) => j = i + 1

\* a step that runs one Job leaves every slot but the output slot of that Job
\* as it was, and adds no slot
RunChangesOwnOutputOnly ==
    Len(trace') = Len(trace) + 1 =>
        /\ Len(cells') = Len(cells)
        /\ \A slot \in 1 .. Len(cells) :
              slot # jobs[next].output => cells'[slot] = cells[slot]
        /\ (ReadsInput(jobs[next]) /\ jobs[next].input # EmptyVarying) =>
              /\ jobs[next].input # jobs[next].output
              /\ cells'[jobs[next].input] = cells[jobs[next].input]

(* C20: running one Job changes at most its own output slot: its input slot
   and every other slot of the Task hold the same value after the run as
   before; each slot has a single writer, the Job whose output it is, and is
   read only by the next Job in the chain. *)
C20_RunChangesOwnOutputOnly ==
    []SingleWriterSingleReader /\ [][RunChangesOwnOutputOnly]_vars

\* the second Job of a chain has run: its output slot has changed, the slot it
\* read, the output of the first Job, holds what it held before
C20_Witness ==
    /\ pc = "running"
    /\ Len(trace) = 2
    /\ HasOutput(1)
    /\ HasOutput(2)
    /\ jobs[2].input = jobs[1].output
    /\ trace[2].cells[jobs[2].output] # trace[1].cells[jobs[2].output]
    /\ trace[2].cells[jobs[1].output] = trace[1].cells[jobs[1].output]
    /\ trace[2].cells[jobs[1].output].data # << >>


-----------------------------------------------------------------------------
(* C21, as stated: whenever a Job that has an input slot is run, its input
   Varying is bound to a payload; for every constructor of ModelI and ModelIO
   a constructed Job never reads an empty, never-bound input slot: no run
   recorded in a frame, and no run the process died in, is the run of a Job
   whose _input is an empty Varying. *)
C21_InputBoundWhenRun ==
    /\ \A k \in 1 .. Len(trace) :
          ReadsInput(jobs[trace[k].job]) => jobs[trace[k].job].input # EmptyVarying
    /\ pc = "crashed" => jobs[next].input # EmptyVarying

-----------------------------------------------------------------------------
\* the traits named by some with/without call made on the Builder
NamedTraits == {calls[i].bit : i \in 1 .. Len(calls)}

\* the last call made on the Builder for one trait it was called for
LastCallFor(bit) ==
    calls[CHOOSE i \in 1 .. Len(calls) :
              /\ calls[i].bit = bit
              /\ \A j \in (i + 1) .. Len(calls) : calls[j].bit # bit]

\* a filter's mask holds the named traits, its value is within its mask, and
\* each named trait's value bit is what the last call for the trait asked for
FilterOfCalls(f) ==
    /\ f.mask = NamedTraits
    /\ f.value \subseteq f.mask
    /\ \A bit \in NamedTraits : bit \in f.value <=> LastCallFor(bit).with

\* a with/without call leaves every bit but its own trait's as it was
CallChangesOwnBitOnly ==
    Len(calls') = Len(calls) + 1 =>
        LET bit == calls'[Len(calls')].bit IN
        /\ builder'.value \ {bit} = builder.value \ {bit}
        /\ builder'.mask \ {bit} = builder.mask \ {bit}
        /\ bit \in builder'.mask

(* C22: for every sequence of MaterialFilter::Builder with/without calls, the
   built filter's mask contains exactly the traits named by some call, its
   value bits are a subset of its mask, each call changes only its own trait's
   bit in value and mask, and when with and without are both called for one
   trait the last call decides that trait's value bit. *)
C22_BuilderFollowsCalls ==
    /\ [](/\ FilterOfCalls(builder)
          /\ call.op = "build" => FilterOfCalls(call.result))
    /\ [][CallChangesOwnBitOnly]_vars

\* a filter built after withTransparent, withoutTransparent and withAlbedo
C22_Witness ==
    /\ call.op = "build"
    /\ calls = << [with |-> TRUE, bit |-> TRANSPARENT_VAL_BIT],
                  [with |-> FALSE, bit |-> TRANSPARENT_VAL_BIT],
                  [with |-> TRUE, bit |-> ALBEDO_VAL_BIT] >>
    /\ call.result.value = {ALBEDO_VAL_BIT}
    /\ call.result.mask = {ALBEDO_VAL_BIT, TRANSPARENT_VAL_BIT}

-----------------------------------------------------------------------------
(* C23: ObjectMotionState::shouldSendUpdate returns true immediately, whatever
   the elapsed time, when the body is inactive and the last sent state was
   moving (_sentMoving); and every call, whether it returns true or false,
   sets _sentFrame to the simulationFrame passed in. *)
C23_SendsWhenJustStopped ==
    call.op = "shouldSendUpdate" =>
        /\ call.pre.body = "inactive" /\ call.pre.sentMoving =>
               call.result = TRUE /\ call.branch = "wentInactive"
        /\ sentFrame = call.simulationFrame

\* a call in the frame of the last one, no time elapsed, on a body that went
\* inactive after a moving state was sent
C23_Witness ==
    /\ call.op = "shouldSendUpdate"
    /\ call.pre.body = "inactive"
    /\ call.pre.sentMoving
    /\ call.pre.sentFrame = <<0, 61>>
    /\ call.simulationFrame = <<0, 61>>
    /\ call.subStepRemainder = 0
    /\ call.dt = 0
    /\ call.result = TRUE
    /\ sentFrame = <<0, 61>>

\* shouldSendUpdate has returned true from its periodic non-moving branch
PeriodicResend ==
    call.op = "shouldSendUpdate" /\ call.branch = "nonMoving" /\ call.result

(* C24: resends for an object that has stopped moving are bounded by
   MAX_NUM_NON_MOVING_UPDATES (5): the periodic non-moving branch of
   shouldSendUpdate returns true only when more than 1 second (120 half
   substeps) has elapsed and _numNonMovingUpdates < 5; doesNotNeedToSendUpdate()
   is true exactly when the body is inactive and _numNonMovingUpdates > 5; and
   whenever doesNotNeedToSendUpdate() is true the periodic non-moving branch
   cannot return true. *)
C24_NonMovingResendsBounded ==
    /\ PeriodicResend =>
           /\ call.dt > 120
           /\ call.pre.numNonMovingUpdates < 5
           /\ call.pre.body = "inactive" /\ ~call.pre.sentMoving
    /\ call.op = "doesNotNeedToSendUpdate" =>
           (call.result <=>
               call.pre.body = "inactive" /\ call.pre.numNonMovingUpdates > 5)
    /\ /\ call.op = "shouldSendUpdate"
       /\ call.pre.body = "inactive"
       /\ call.pre.numNonMovingUpdates > 5
       => ~PeriodicResend

\* the fifth periodic resend, half a substep after the period has passed
C24_Witness ==
    /\ PeriodicResend
    /\ call.pre.numNonMovingUpdates = 4
    /\ call.pre.sentFrame = <<0, 0>>
    /\ call.simulationFrame = <<0, 60>>
    /\ call.subStepRemainder = 1
    /\ call.dt = 121


=============================================================================
